---- MODULE Spec2Model ----
(***************************************************************************)
(* Model of pre_commit_hooks/eslint_fix.py: the runtime / local-eslint     *)
(* detector (detect_runtime_and_eslint, _check_package_manager_field) and  *)
(* the command builder and runner (main).                                  *)
(*                                                                         *)
(* A path is the sequence of its components below the filesystem root      *)
(* (<<>> is "/", <<"a","b">> is "/a/b").  The filesystem is a function     *)
(* from the paths of the existing regular files to their contents.  The    *)
(* file list of main is kept as paths; Str gives the text of a path, which *)
(* is what the argument vector holds.                                      *)
(*                                                                         *)
(* SpecDetect calls the detector on a directory, as the tests do; Spec     *)
(* runs main.                                                              *)
(***************************************************************************)
EXTENDS Integers, Sequences, FiniteSets, TLC

VARIABLES
    fs,                 \* existing regular files: path -> content
    os_name,            \* os.name: "posix" or "nt"
    argv,               \* main's argv: a sequence of paths (args.filenames)
    start_path,         \* the detector's argument (tests call it directly)
    result,             \* what the detector call returned (SpecDetect)
    pc,                 \* main's position
    cmd_prefix,         \* main's locals
    local_eslint_path,
    cmd,
    out,                \* lines printed by main
    ret,                \* main's return value
    child,              \* how subprocess.run ended
    n_detect,           \* calls of detect_runtime_and_eslint made by main
    n_run               \* calls of subprocess.run made by main

vars == <<fs, os_name, argv, start_path, result, pc, cmd_prefix,
          local_eslint_path, cmd, out, ret, child, n_detect, n_run>>

----------------------------------------------------------------------------
(* Bounds of the model *)

\* number of directory levels below the root
Depth == 2
\* number of marker files and local binaries the filesystem holds
MaxMarkers == 2
\* length of main's file list
MaxArgs == 2

----------------------------------------------------------------------------
(* Python values *)

None == "None"

\* truthiness of a str | None
TruthyStr(s) == s # None /\ s # ""

\* str.startswith on strings kept as sequences of characters
StartsWith(s, p) == Len(s) >= Len(p) /\ SubSeq(s, 1, Len(p)) = p

----------------------------------------------------------------------------
(* pathlib *)

DirNames == <<"a", "b", "c", "d">>

Root == <<>>

\* the directories of the model: a chain "/", "/a", "/a/b", ...
Dirs == { SubSeq(DirNames, 1, k) : k \in 0..Depth }

\* Path.parents: the ancestors of p, nearest first, ending at the root
Parents(p) == [i \in 1..Len(p) |-> SubSeq(p, 1, Len(p) - i)]

\* Path.parent
Parent(p) == IF p = Root THEN Root ELSE SubSeq(p, 1, Len(p) - 1)

RECURSIVE Join(_)
Join(p) == IF p = <<>> THEN "" ELSE "/" \o Head(p) \o Join(Tail(p))

\* str(path) of an absolute path
Str(p) == IF p = Root THEN "/" ELSE Join(p)

\* Path.exists: a regular file of the filesystem, or a directory
Exists(f, p) == p \in DOMAIN f \/ p \in Dirs

\* Path.is_file
IsFile(f, p) == p \in DOMAIN f

----------------------------------------------------------------------------
(* File contents *)

\* a file that holds no JSON document (an empty file made by touch, say)
Text == [kind |-> "text"]

\* a JSON document that is not an object
JsonArray == [kind |-> "array"]

\* JSON values of the packageManager field
JNull == [t |-> "null"]
JNum(n) == [t |-> "num", v |-> n]
JStr(s) == [t |-> "str", v |-> s]

\* a JSON object, with or without the packageManager field
JsonObject(has, v) == [kind |-> "object", has |-> has, pm |-> v]

PmStrings ==
    { <<>>,
      <<"p","n","p","m","@","9">>,
      <<"y","a","r","n","@","4">>,
      <<"b","u","n","@","1">>,
      <<"n","p","m","@","1","0">>,
      <<"d","e","n","o","@","2">> }

PmValues == {JNum(9)} \cup { JStr(s) : s \in PmStrings }

\* what a package.json can hold
PkgContents ==
    {Text, JsonArray, JsonObject(FALSE, JNull)}
        \cup { JsonObject(TRUE, v) : v \in PmValues }

\* truthiness of a JSON value (if pm_field:)
Truthy(v) ==
    CASE v.t = "null" -> FALSE
      [] v.t = "num"  -> v.v # 0
      [] v.t = "str"  -> v.v # <<>>

----------------------------------------------------------------------------
(* detect_runtime_and_eslint *)

\* a detection result: (execution command prefix, local eslint path)
Result(prefix, local) == [prefix |-> prefix, local |-> local]

\* Python's None where a result tuple is expected
NoResult == [none |-> TRUE]

\* an exception leaving the function
Raised == [raised |-> TRUE]

LOCK_FILES ==
    << <<"pnpm-lock.yaml",      <<"pnpm", "exec">> >>,
       <<"yarn.lock",           <<"yarn", "run">> >>,
       <<"bun.lockb",           <<"bun", "x">> >>,
       <<"bun.lock",            <<"bun", "x">> >>,
       <<"package-lock.json",   <<"npx">> >>,
       <<"npm-shrinkwrap.json", <<"npx">> >> >>

\* PmFieldTry with the bun family's local binary run without its wrapper
PmFieldTryBunUnwrapped(f, path, local_eslint, has_local) ==
    LET c == f[path \o <<"package.json">>] IN
    IF c.kind # "object"
    THEN Raised
    ELSE
        LET pm_field == IF c.has THEN c.pm ELSE JStr(<<>>) IN
        IF ~Truthy(pm_field) THEN NoResult
        ELSE IF pm_field.t # "str" THEN Raised
        ELSE IF StartsWith(pm_field.v, <<"p","n","p","m">>)
            THEN IF has_local THEN Result(<<>>, Str(local_eslint))
                              ELSE Result(<<"pnpm", "exec">>, None)
        ELSE IF StartsWith(pm_field.v, <<"y","a","r","n">>)
            THEN IF has_local THEN Result(<<>>, Str(local_eslint))
                              ELSE Result(<<"yarn", "run">>, None)
        ELSE IF StartsWith(pm_field.v, <<"b","u","n">>)
            THEN IF has_local THEN Result(<<>>, Str(local_eslint))
                              ELSE Result(<<"bun", "x">>, None)
        ELSE IF StartsWith(pm_field.v, <<"n","p","m">>)
            THEN IF has_local THEN Result(<<>>, Str(local_eslint))
                              ELSE Result(<<"npx">>, None)
        ELSE NoResult

\* the body of the try block of _check_package_manager_field
PmFieldTry(f, path, local_eslint, has_local) ==
    LET c == f[path \o <<"package.json">>] IN
    IF c.kind # "object"
    THEN Raised     \* open, json.load or pkg_data.get raises
    ELSE
        LET pm_field == IF c.has THEN c.pm ELSE JStr(<<>>) IN
        IF ~Truthy(pm_field) THEN NoResult
        ELSE IF pm_field.t # "str" THEN Raised   \* no startswith
        ELSE IF StartsWith(pm_field.v, <<"p","n","p","m">>)
            THEN IF has_local THEN Result(<<>>, Str(local_eslint))
                              ELSE Result(<<"pnpm", "exec">>, None)
        ELSE IF StartsWith(pm_field.v, <<"y","a","r","n">>)
            THEN IF has_local THEN Result(<<>>, Str(local_eslint))
                              ELSE Result(<<"yarn", "run">>, None)
        ELSE IF StartsWith(pm_field.v, <<"b","u","n">>)
            THEN IF has_local THEN Result(<<"bun">>, Str(local_eslint))
                              ELSE Result(<<"bun", "x">>, None)
        ELSE IF StartsWith(pm_field.v, <<"n","p","m">>)
            THEN IF has_local THEN Result(<<>>, Str(local_eslint))
                              ELSE Result(<<"npx">>, None)
        ELSE NoResult

\* _check_package_manager_field without its except clause
check_package_manager_field_no_except(f, path, local_eslint, has_local) ==
    IF Exists(f, path \o <<"package.json">>)
    THEN PmFieldTry(f, path, local_eslint, has_local)
    ELSE NoResult

_check_package_manager_field(f, path, local_eslint, has_local) ==
    IF Exists(f, path \o <<"package.json">>)
    THEN LET r == PmFieldTry(f, path, local_eslint, has_local) IN
         IF r = Raised THEN NoResult ELSE r     \* except Exception: pass
    ELSE NoResult

\* the candidate binary of a directory
LocalEslint(os, path) ==
    path \o <<"node_modules", ".bin", IF os = "nt" THEN "eslint.cmd" ELSE "eslint">>

\* the loop over LOCK_FILES that never looks at has_local
RECURSIVE LockFileLoopNoLocal(_, _, _, _, _)
LockFileLoopNoLocal(f, path, local_eslint, has_local, i) ==
    IF i > Len(LOCK_FILES) THEN NoResult
    ELSE IF Exists(f, path \o <<LOCK_FILES[i][1]>>)
         THEN Result(LOCK_FILES[i][2], None)
         ELSE LockFileLoopNoLocal(f, path, local_eslint, has_local, i + 1)

\* the loop over LOCK_FILES that keeps the package manager's prefix before
\* the local binary
RECURSIVE LockFileLoopProxyLocal(_, _, _, _, _)
LockFileLoopProxyLocal(f, path, local_eslint, has_local, i) ==
    IF i > Len(LOCK_FILES) THEN NoResult
    ELSE IF Exists(f, path \o <<LOCK_FILES[i][1]>>)
         THEN Result(LOCK_FILES[i][2], IF has_local THEN Str(local_eslint) ELSE None)
         ELSE LockFileLoopProxyLocal(f, path, local_eslint, has_local, i + 1)

\* the loop over LOCK_FILES.items(), from entry i on
RECURSIVE LockFileLoop(_, _, _, _, _)
LockFileLoop(f, path, local_eslint, has_local, i) ==
    IF i > Len(LOCK_FILES) THEN NoResult
    ELSE IF Exists(f, path \o <<LOCK_FILES[i][1]>>)
         THEN IF has_local THEN Result(<<>>, Str(local_eslint))
                           ELSE Result(LOCK_FILES[i][2], None)
         ELSE LockFileLoop(f, path, local_eslint, has_local, i + 1)

\* CheckPath with the Bun lockfiles looked for before the Deno config
CheckPathBunFirst(f, os, path) ==
    LET local_eslint == LocalEslint(os, path)
        has_local == Exists(f, local_eslint)
    IN
    IF Exists(f, path \o <<"bun.lockb">>) \/ Exists(f, path \o <<"bun.lock">>)
    THEN IF has_local THEN Result(<<"bun">>, Str(local_eslint))
                      ELSE Result(<<"bun", "x">>, None)
    ELSE IF Exists(f, path \o <<"deno.json">>) \/ Exists(f, path \o <<"deno.jsonc">>)
    THEN IF has_local THEN Result(<<"deno", "run", "-A">>, Str(local_eslint))
                      ELSE Result(<<"deno", "run", "-A", "npm:eslint">>, None)
    ELSE
        LET pm_result == _check_package_manager_field(f, path, local_eslint, has_local) IN
        IF pm_result # NoResult THEN pm_result
        ELSE LockFileLoop(f, path, local_eslint, has_local, 1)

\* one pass of the loop over paths_to_check: the result returned there, or NoResult
CheckPath(f, os, path) ==
    LET local_eslint == LocalEslint(os, path)
        has_local == Exists(f, local_eslint)
    IN
    IF Exists(f, path \o <<"deno.json">>) \/ Exists(f, path \o <<"deno.jsonc">>)
    THEN IF has_local THEN Result(<<"deno", "run", "-A">>, Str(local_eslint))
                      ELSE Result(<<"deno", "run", "-A", "npm:eslint">>, None)
    ELSE IF Exists(f, path \o <<"bun.lockb">>) \/ Exists(f, path \o <<"bun.lock">>)
    THEN IF has_local THEN Result(<<"bun">>, Str(local_eslint))
                      ELSE Result(<<"bun", "x">>, None)
    ELSE
        LET pm_result == _check_package_manager_field(f, path, local_eslint, has_local) IN
        IF pm_result # NoResult THEN pm_result
        ELSE LockFileLoop(f, path, local_eslint, has_local, 1)

\* the return after the loop: local_eslint and has_local are those of the last pass
Fallback(f, os, paths) ==
    LET local_eslint == LocalEslint(os, paths[Len(paths)])
        has_local == Exists(f, local_eslint)
    IN IF has_local THEN Result(<<>>, Str(local_eslint)) ELSE Result(<<"npx">>, None)

\* the loop over paths_to_check taken from the root downwards
RECURSIVE DetectLoopFarthestFirst(_, _, _, _)
DetectLoopFarthestFirst(f, os, paths, i) ==
    IF i > Len(paths) THEN Fallback(f, os, paths)
    ELSE LET r == CheckPath(f, os, paths[Len(paths) - i + 1]) IN
         IF r # NoResult THEN r ELSE DetectLoopFarthestFirst(f, os, paths, i + 1)

RECURSIVE DetectLoop(_, _, _, _)
DetectLoop(f, os, paths, i) ==
    IF i > Len(paths) THEN Fallback(f, os, paths)
    ELSE LET r == CheckPath(f, os, paths[i]) IN
         IF r # NoResult THEN r ELSE DetectLoop(f, os, paths, i + 1)

detect_runtime_and_eslint(f, os, start) ==
    LET current_path == start       \* absolute() of an absolute path
        paths_to_check == <<current_path>> \o Parents(current_path)
    IN DetectLoop(f, os, paths_to_check, 1)

----------------------------------------------------------------------------
(* The filesystems and inputs the model starts from *)

\* what a directory may hold: the marker files, a package.json and the local
\* binary under the name that os gives it
Suffixes(os) ==
    << <<"deno.json">>, <<"deno.jsonc">>, <<"bun.lockb">>, <<"bun.lock">>,
       <<"pnpm-lock.yaml">>, <<"yarn.lock">>, <<"package-lock.json">>,
       <<"npm-shrinkwrap.json">>, <<"package.json">>,
       <<"node_modules", ".bin", IF os = "nt" THEN "eslint.cmd" ELSE "eslint">> >>

NumSuffixes == Len(Suffixes("posix"))

NumCandidates == (Depth + 1) * NumSuffixes

\* the n-th path that may hold a file
Candidate(os, n) ==
    SubSeq(DirNames, 1, (n - 1) \div NumSuffixes) \o Suffixes(os)[((n - 1) % NumSuffixes) + 1]

\* the choices of k of the candidate paths lo..hi
Choices(k, lo, hi) ==
    { s \in [1..k -> lo..hi] : \A i \in 1..(k - 1) : s[i] < s[i + 1] }

IsPkgPath(p) == p[Len(p)] = "package.json"

\* the files of a choice s of k candidates: touched markers and binaries, and
\* package.json files of contents g
MarkerFiles(os, k, s, g) ==
    [p \in { Candidate(os, s[i]) : i \in 1..k } |-> IF IsPkgPath(p) THEN g[p] ELSE Text]

PkgPathsOf(k, s) == { p \in { Candidate("posix", s[i]) : i \in 1..k } : IsPkgPath(p) }

\* fs is a filesystem of at most MaxMarkers files, anywhere in the directories
ChooseFileSystem ==
    \E k \in 0..MaxMarkers : \E s \in Choices(k, 1, NumCandidates) :
        \E g \in [PkgPathsOf(k, s) -> PkgContents] :
            fs = MarkerFiles(os_name, k, s, g)

----------------------------------------------------------------------------
(* Calling the detector on a directory, as the tests do *)

InitDetect ==
    /\ os_name \in {"posix", "nt"}
    /\ ChooseFileSystem
    /\ start_path \in Dirs
    /\ result = NoResult
    /\ argv = <<>>
    /\ pc = "call"
    /\ cmd_prefix = <<>>
    /\ local_eslint_path = None
    /\ cmd = <<>>
    /\ out = <<>>
    /\ ret = None
    /\ child = None
    /\ n_detect = 0
    /\ n_run = 0

Detect ==
    /\ pc = "call"
    /\ result' = detect_runtime_and_eslint(fs, os_name, start_path)
    /\ pc' = "returned"
    /\ UNCHANGED <<fs, os_name, argv, start_path, cmd_prefix, local_eslint_path,
                   cmd, out, ret, child, n_detect, n_run>>

NextDetect == Detect

SpecDetect == InitDetect /\ [][NextDetect]_vars

----------------------------------------------------------------------------
(* main *)

\* the deepest directory, where the files to fix lie
Deep == SubSeq(DirNames, 1, Depth)

SrcFile == Deep \o <<"x.js">>

\* what main's file list is made of: a source file, and its directory
ArgPaths == {SrcFile, Deep}

ArgLists == UNION { [1..n -> ArgPaths] : n \in 0..MaxArgs }

\* args.filenames as given on the command line (the text of each path)
Filenames(files) == [i \in 1..Len(files) |-> Str(files[i])]

\* the argument vector without the case of deno's remote form
BuildCmdNoDenoCase(prefix, local, files) ==
    IF TruthyStr(local)
    THEN prefix \o <<local, "--fix">> \o Filenames(files)
    ELSE prefix \o <<"eslint", "--fix">> \o Filenames(files)

\* lines 102-110: the argument vector
BuildCmd(prefix, local, files) ==
    IF TruthyStr(local)
    THEN prefix \o <<local, "--fix">> \o Filenames(files)
    ELSE IF prefix # <<>> /\ prefix[1] = "deno"
    THEN prefix \o <<"--fix">> \o Filenames(files)
    ELSE prefix \o <<"eslint", "--fix">> \o Filenames(files)

\* the exit codes a child is seen to return
ExitCodes == {0, 1, 2}

Exited(code) == [how |-> "exited", returncode |-> code]
FileNotFoundError == [how |-> "FileNotFoundError"]
OtherException == [how |-> "Exception"]

\* the return value had subprocess.run been called with check=True: a
\* non-zero exit raises CalledProcessError, which except Exception turns into 1
ReturnValueCheckTrue(outcome) ==
    IF outcome.how = "exited" /\ outcome.returncode = 0 THEN 0 ELSE 1

\* lines 114-124: what main returns for each way subprocess.run ends
ReturnValue(outcome) ==
    IF outcome.how = "exited" THEN outcome.returncode ELSE 1

\* lines 118-124: what main prints when subprocess.run raises
ErrorLine(outcome, c) ==
    IF outcome.how = "FileNotFoundError"
    THEN [line |-> "not found", name |-> IF c # <<>> THEN c[1] ELSE "unknown"]
    ELSE [line |-> "unexpected error"]

\* the filesystems of main: a project directory of at most MaxMarkers marker
\* files, and the source file, which exists or not
Init ==
    /\ os_name \in {"posix", "nt"}
    /\ \E l \in 0..Depth : \E k \in 0..MaxMarkers :
        \E s \in Choices(k, l * NumSuffixes + 1, (l + 1) * NumSuffixes) :
            \E g \in [PkgPathsOf(k, s) -> PkgContents] :
                \E src \in SUBSET {SrcFile} :
                    fs = [p \in (DOMAIN MarkerFiles(os_name, k, s, g)) \cup src |->
                            IF p \in src THEN Text ELSE MarkerFiles(os_name, k, s, g)[p]]
    /\ argv \in ArgLists
    /\ start_path = Root
    /\ result = NoResult
    /\ pc = "main"
    /\ cmd_prefix = <<>>
    /\ local_eslint_path = None
    /\ cmd = <<>>
    /\ out = <<>>
    /\ ret = None
    /\ child = None
    /\ n_detect = 0
    /\ n_run = 0

\* main without the early return on an empty file list
ParseArgsNoEarlyReturn ==
    /\ pc = "main"
    /\ pc' = "detect"
    /\ UNCHANGED <<fs, os_name, argv, start_path, result, cmd_prefix,
                   local_eslint_path, cmd, out, ret, child, n_detect, n_run>>

\* lines 86-91: no file, no work
ParseArgs ==
    /\ pc = "main"
    /\ IF argv = <<>>
       THEN pc' = "exit" /\ ret' = 0
       ELSE pc' = "detect" /\ ret' = ret
    /\ UNCHANGED <<fs, os_name, argv, start_path, result, cmd_prefix,
                   local_eslint_path, cmd, out, child, n_detect, n_run>>

\* lines 94-97: detection from the directory of the first file
DetectStart ==
    /\ pc = "detect"
    /\ IF argv = <<>>
       THEN \* args.filenames[0] raises IndexError
            /\ pc' = "raised"
            /\ UNCHANGED <<start_path, result, cmd_prefix, local_eslint_path, n_detect>>
       ELSE LET first_file == argv[1]
                start_dir == IF IsFile(fs, first_file) THEN Parent(first_file)
                                                       ELSE first_file
                r == detect_runtime_and_eslint(fs, os_name, start_dir)
            IN /\ start_path' = start_dir
               /\ result' = r
               /\ cmd_prefix' = r.prefix
               /\ local_eslint_path' = r.local
               /\ n_detect' = n_detect + 1
               /\ pc' = "build"
    /\ UNCHANGED <<fs, os_name, argv, cmd, out, ret, child, n_run>>

\* lines 102-112: the command, and the line that announces it
BuildCommand ==
    /\ pc = "build"
    /\ cmd' = BuildCmd(cmd_prefix, local_eslint_path, argv)
    /\ out' = Append(out, [line |-> "Running", cmd |-> cmd'])
    /\ pc' = "run"
    /\ UNCHANGED <<fs, os_name, argv, start_path, result, cmd_prefix,
                   local_eslint_path, ret, child, n_detect, n_run>>

\* lines 114-124: subprocess.run ends in outcome
Run(outcome) ==
    /\ pc = "run"
    /\ child' = outcome
    /\ n_run' = n_run + 1
    /\ ret' = ReturnValue(outcome)
    /\ out' = IF outcome.how = "exited" THEN out ELSE Append(out, ErrorLine(outcome, cmd))
    /\ pc' = "exit"
    /\ UNCHANGED <<fs, os_name, argv, start_path, result, cmd_prefix,
                   local_eslint_path, cmd, n_detect>>

\* the child ran and exited
RunReturns == \E code \in ExitCodes : Run(Exited(code))

\* the first token of cmd is no program of the system
RunFileNotFound == Run(FileNotFoundError)

\* any other exception of the launch
RunException == Run(OtherException)

Next ==
    \/ ParseArgs
    \/ DetectStart
    \/ BuildCommand
    \/ RunReturns
    \/ RunFileNotFound
    \/ RunException

Spec == Init /\ [][Next]_vars

----------------------------------------------------------------------------
(* Vocabulary of the properties of the detector *)

Returned == pc = "returned"

\* the directories the walk from start visits, nearest first
SearchPath(start) == <<start>> \o Parents(start)

SearchDirs(start) == { SearchPath(start)[i] : i \in 1..(Len(start) + 1) }

Has(d, name) == (d \o <<name>>) \in DOMAIN fs

HasLocal(d) == LocalEslint(os_name, d) \in DOMAIN fs

LocalStr(d) == Str(LocalEslint(os_name, d))

HasDeno(d) == Has(d, "deno.json") \/ Has(d, "deno.jsonc")

HasBunLock(d) == Has(d, "bun.lockb") \/ Has(d, "bun.lock")

Families == << <<"p","n","p","m">>, <<"y","a","r","n">>, <<"b","u","n">>, <<"n","p","m">> >>

\* the family (1..4) a package.json of d declares, 0 when it declares none
DeclaredFamily(d) ==
    IF ~Has(d, "package.json") THEN 0
    ELSE LET c == fs[d \o <<"package.json">>] IN
         IF c.kind = "object" /\ c.has /\ c.pm.t = "str"
            /\ \E i \in 1..4 : StartsWith(c.pm.v, Families[i])
         THEN CHOOSE i \in 1..4 : StartsWith(c.pm.v, Families[i])
         ELSE 0

GenericLocks == <<"pnpm-lock.yaml", "yarn.lock", "package-lock.json", "npm-shrinkwrap.json">>

HasGenericLock(d) == \E i \in 1..Len(GenericLocks) : Has(d, GenericLocks[i])

\* some rule matches in directory d
Matches(d) == HasDeno(d) \/ HasBunLock(d) \/ DeclaredFamily(d) # 0 \/ HasGenericLock(d)

\* the directories of the walk from start_path where a rule matches
MatchDirs == { d \in SearchDirs(start_path) : Matches(d) }

\* the nearest of them
Nearest(M) == CHOOSE d \in M : \A e \in M : Len(e) <= Len(d)

\* the directory a file of the filesystem lies in
DirOf(p) == IF p[Len(p)] \in {"eslint", "eslint.cmd"}
            THEN SubSeq(p, 1, Len(p) - 3) ELSE SubSeq(p, 1, Len(p) - 1)

\* the filesystem with only the files of directory d
OnlyDir(d) == [p \in { q \in DOMAIN fs : DirOf(q) = d } |-> fs[p]]

\* the filesystem without file p
Without(p) == [q \in DOMAIN fs \ {p} |-> fs[q]]

----------------------------------------------------------------------------
(* C1: when no directory of the search path matches a rule, the detector
   returns ([], the local binary's path) if a local binary exists in ANY
   directory visited, and (['npx'], None) otherwise.  The code returns the
   binary of the last directory visited (the root) only. *)
C1_FallbackAnyLocal ==
    (Returned /\ \A d \in SearchDirs(start_path) : ~Matches(d)) =>
        IF \E d \in SearchDirs(start_path) : HasLocal(d)
        THEN /\ result.prefix = <<>>
             /\ \E d \in SearchDirs(start_path) : HasLocal(d) /\ result.local = LocalStr(d)
        ELSE result = Result(<<"npx">>, None)

(* C2: the walk stops at the nearest directory A where a rule matches: the
   result from start_path is the result from A, and the result from A in a
   filesystem that holds A's own files only. *)
C2_StopsAtNearestMatch ==
    Returned =>
        LET M == MatchDirs IN
        M # {} =>
            LET A == Nearest(M) IN
            /\ result = detect_runtime_and_eslint(fs, os_name, A)
            /\ result = detect_runtime_and_eslint(OnlyDir(A), os_name, A)

\* the walk started below A, and a farther directory holds a marker too
C2_Witness ==
    /\ Returned
    /\ MatchDirs # {}
    /\ Nearest(MatchDirs) # start_path
    /\ \E e \in MatchDirs : e # Nearest(MatchDirs)

\* what the rule of the highest priority that matches in d returns
Expected(d) ==
    LET L == LocalStr(d)
        k == DeclaredFamily(d)
    IN
    IF HasDeno(d)
    THEN IF HasLocal(d) THEN Result(<<"deno", "run", "-A">>, L)
                        ELSE Result(<<"deno", "run", "-A", "npm:eslint">>, None)
    ELSE IF HasBunLock(d)
    THEN IF HasLocal(d) THEN Result(<<"bun">>, L) ELSE Result(<<"bun", "x">>, None)
    ELSE IF k # 0
    THEN IF HasLocal(d)
         THEN Result(IF k = 3 THEN <<"bun">> ELSE <<>>, L)
         ELSE Result(<< <<"pnpm", "exec">>, <<"yarn", "run">>, <<"bun", "x">>, <<"npx">> >>[k], None)
    ELSE IF HasLocal(d) THEN Result(<<>>, L)
    ELSE LET i == CHOOSE i \in 1..4 :
                    /\ Has(d, GenericLocks[i])
                    /\ \A j \in 1..(i - 1) : ~Has(d, GenericLocks[j])
         IN Result(<< <<"pnpm", "exec">>, <<"yarn", "run">>, <<"npx">>, <<"npx">> >>[i], None)

(* C3: in the first matching directory the rules apply in the order Deno
   config > Bun lockfile > packageManager field > generic lockfiles in table
   order; a Deno config decides the result whatever else the directory holds. *)
C3_RulePriority ==
    Returned =>
        LET M == MatchDirs IN
        M # {} =>
            LET A == Nearest(M) IN
            /\ result = Expected(A)
            /\ HasDeno(A) =>
                result = IF HasLocal(A)
                         THEN Result(<<"deno", "run", "-A">>, LocalStr(A))
                         ELSE Result(<<"deno", "run", "-A", "npm:eslint">>, None)

\* a Deno config beside a marker of a lower-priority rule
C3_Witness ==
    /\ Returned
    /\ MatchDirs # {}
    /\ HasDeno(Nearest(MatchDirs))
    /\ \/ HasBunLock(Nearest(MatchDirs))
       \/ DeclaredFamily(Nearest(MatchDirs)) # 0
       \/ HasGenericLock(Nearest(MatchDirs))
    /\ result.prefix[1] = "deno"

\* the marker files (package.json included) of directory d
MarkersOf(d) ==
    { p[Len(p)] : p \in { q \in DOMAIN fs : DirOf(q) = d /\ q # LocalEslint(os_name, d) } }

BunLocks == {"bun.lockb", "bun.lock"}

(* C4 as stated: a start directory whose only marker is a lockfile L of
   LOCK_FILES gives (LOCK_FILES[L], None) without a local binary and
   ([], local path) with one, for every L. *)
C4_LockfileOnly ==
    Returned =>
        LET M == MarkersOf(start_path) IN
        \A i \in 1..Len(LOCK_FILES) :
            M = {LOCK_FILES[i][1]} =>
                result = IF HasLocal(start_path)
                         THEN Result(<<>>, LocalStr(start_path))
                         ELSE Result(LOCK_FILES[i][2], None)

(* C4 amended: as C4, except that with a local binary the Bun lockfiles
   bun.lockb and bun.lock give (['bun'], local path). *)
C4_LockfileOnlyAmended ==
    Returned =>
        LET M == MarkersOf(start_path) IN
        \A i \in 1..Len(LOCK_FILES) :
            M = {LOCK_FILES[i][1]} =>
                result = IF HasLocal(start_path)
                         THEN Result(IF LOCK_FILES[i][1] \in BunLocks THEN <<"bun">> ELSE <<>>,
                                     LocalStr(start_path))
                         ELSE Result(LOCK_FILES[i][2], None)

\* a generic lockfile alone beside a local binary
C4_Witness ==
    /\ Returned
    /\ MarkersOf(start_path) = {"yarn.lock"}
    /\ HasLocal(start_path)
    /\ result.prefix = <<>>

Launchers == { <<>>, <<"bun">>, <<"deno", "run", "-A">> }

(* C9: in every result of the detector, a local path comes with an empty
   prefix or a runtime launcher (['bun'], ['deno','run','-A']), never with a
   package-manager proxy; without a local path the prefix is not empty. *)
C9_LocalImpliesLauncher ==
    Returned =>
        /\ result.local # None => result.prefix \in Launchers
        /\ result.local = None => result.prefix # <<>>

\* a packageManager field of the bun family beside a local binary
C9_Witness ==
    /\ Returned
    /\ MatchDirs # {}
    /\ DeclaredFamily(Nearest(MatchDirs)) = 3
    /\ HasLocal(Nearest(MatchDirs))
    /\ result.local # None
    /\ result.prefix = <<"bun">>

\* a package.json content that declares nothing: no JSON, no object, a
\* packageManager that is no string, or an empty one
Degenerate(c) ==
    \/ c.kind \in {"text", "array"}
    \/ c.kind = "object" /\ c.has /\ (c.pm.t # "str" \/ c.pm.v = <<>>)

(* C10: the detector never raises on a package.json, and a malformed one or
   one with an empty packageManager gives the result the filesystem gives
   without that file. *)
C10_MalformedManifestIgnored ==
    Returned =>
        /\ result # Raised
        /\ \A d \in SearchDirs(start_path) :
            (Has(d, "package.json") /\ Degenerate(fs[d \o <<"package.json">>])) =>
                result = detect_runtime_and_eslint(Without(d \o <<"package.json">>),
                                                   os_name, start_path)

\* a malformed package.json beside a generic lockfile, which decides
C10_Witness ==
    /\ Returned
    /\ Has(start_path, "package.json")
    /\ Degenerate(fs[start_path \o <<"package.json">>])
    /\ Has(start_path, "yarn.lock")
    /\ result = Result(<<"yarn", "run">>, None)

----------------------------------------------------------------------------
(* Vocabulary of the properties of main *)

\* main has built its argument vector
Built == cmd # <<>>

\* the family's remote-execute tokens
RemoteExec == << <<"pnpm", "exec">>, <<"yarn", "run">>, <<"bun", "x">>, <<"npx">> >>

\* the family's wrapper tokens before a local binary
Wrapper == << <<>>, <<>>, <<"bun">>, <<>> >>

\* the first file is a file path, and its directory declares a family
FirstDirDeclares ==
    /\ Built
    /\ argv[1] \notin Dirs
    /\ DeclaredFamily(Parent(argv[1])) # 0

\* the command the packageManager field of directory d asks for
FamilyCommand(d) ==
    IF HasLocal(d)
    THEN Wrapper[DeclaredFamily(d)] \o <<LocalStr(d), "--fix">> \o Filenames(argv)
    ELSE RemoteExec[DeclaredFamily(d)] \o <<"eslint", "--fix">> \o Filenames(argv)

(* C5 as stated: when the directory of the first file has a package.json
   that declares a family, main runs the family's remote-execute tokens +
   eslint --fix files without a local binary, and the family's wrapper +
   local path --fix files with one. *)
C5_PackageManagerCommand ==
    FirstDirDeclares => cmd = FamilyCommand(Parent(argv[1]))

(* C5 amended: as C5, for a directory that holds no Deno config and no Bun
   lockfile (those rules come first). *)
C5_PackageManagerCommandAmended ==
    (FirstDirDeclares /\ ~HasDeno(Parent(argv[1])) /\ ~HasBunLock(Parent(argv[1])))
        => cmd = FamilyCommand(Parent(argv[1]))

\* a packageManager of the bun family beside a local binary: bun wraps it
C5_Witness ==
    /\ FirstDirDeclares
    /\ DeclaredFamily(Parent(argv[1])) = 3
    /\ HasLocal(Parent(argv[1]))
    /\ cmd[1] = "bun"
    /\ cmd[3] = "--fix"

\* the place of the first --fix of the argument vector
FixAt == CHOOSE i \in 1..Len(cmd) : cmd[i] = "--fix" /\ \A j \in 1..(i - 1) : cmd[j] # "--fix"

\* a token that names the linter
IsLinterRef(t) ==
    \/ t \in {"eslint", "npm:eslint"}
    \/ local_eslint_path # None /\ t = local_eslint_path

(* C6: the argument vector is prefix + [local, --fix] + files with a local
   binary, else prefix + [--fix] + files for a prefix that starts with deno,
   else prefix + [eslint, --fix] + files; the files follow --fix in the order
   given and exactly one linter reference precedes --fix. *)
C6_ArgumentVector ==
    Built =>
        /\ local_eslint_path # None =>
            cmd = cmd_prefix \o <<local_eslint_path, "--fix">> \o Filenames(argv)
        /\ (local_eslint_path = None /\ cmd_prefix # <<>> /\ cmd_prefix[1] = "deno") =>
            cmd = cmd_prefix \o <<"--fix">> \o Filenames(argv)
        /\ (local_eslint_path = None /\ (cmd_prefix = <<>> \/ cmd_prefix[1] # "deno")) =>
            cmd = cmd_prefix \o <<"eslint", "--fix">> \o Filenames(argv)
        /\ SubSeq(cmd, FixAt + 1, Len(cmd)) = Filenames(argv)
        /\ Cardinality({ i \in 1..(FixAt - 1) : IsLinterRef(cmd[i]) }) = 1

\* the remote form of deno, with two files to fix
C6_Witness ==
    /\ Built
    /\ Len(argv) = 2
    /\ argv[1] # argv[2]
    /\ SubSeq(cmd, 1, 5) = <<"deno", "run", "-A", "npm:eslint", "--fix">>

\* main has returned after a call of subprocess.run
Ran == pc = "exit" /\ n_run = 1

(* C7 amended: main returns the child's exit code unchanged; when the first
   token cannot be located it prints the name of the missing command and
   returns 1; any other exception of the launch returns 1 too.  (The code 1
   is not kept apart from the linter's own exit codes.) *)
C7_ExitCodesAmended ==
    Ran =>
        /\ child.how = "exited" => ret = child.returncode
        /\ child.how = "FileNotFoundError" =>
            /\ ret = 1
            /\ out[Len(out)] = [line |-> "not found", name |-> cmd[1]]
        /\ child.how = "Exception" => ret = 1

(* C7 as stated: as above, and the code returned for a missing command is
   distinct from every code main returns for a failure the linter reports. *)
C7_ExitCodes ==
    Ran =>
        /\ child.how = "exited" => ret = child.returncode
        /\ child.how = "FileNotFoundError" =>
            /\ ret = 1
            /\ out[Len(out)] = [line |-> "not found", name |-> cmd[1]]
        /\ child.how = "Exception" => ret = 1
        /\ (child.how = "exited" /\ child.returncode # 0) => ret # 1

\* pnpm is not installed: main names it and returns 1
C7_Witness ==
    /\ Ran
    /\ child.how = "FileNotFoundError"
    /\ out[Len(out)] = [line |-> "not found", name |-> "pnpm"]
    /\ ret = 1

(* C8: with no file main returns 0 without detection or launch; with files
   the detection comes before the construction of the command, which comes
   before the launch, and subprocess.run is called exactly once. *)
C8_OrderOfSteps ==
    /\ argv = <<>> =>
        /\ pc \in {"main", "exit"}
        /\ n_detect = 0 /\ n_run = 0 /\ ~Built
        /\ pc = "exit" => ret = 0
    /\ n_detect <= 1 /\ n_run <= 1
    /\ Built => n_detect = 1
    /\ n_run = 1 => Built
    /\ (pc = "exit" /\ argv # <<>>) => (n_detect = 1 /\ n_run = 1)
    /\ pc \in {"main", "detect", "build", "run", "exit"}

\* no file: main has returned 0 and done nothing
C8_Witness ==
    /\ pc = "exit"
    /\ argv = <<>>
    /\ ret = 0
    /\ n_detect = 0
    /\ n_run = 0

====
